---- MODULE Spec2Model ----
(***************************************************************************)
(* Verification model of the per-session delivery queue                    *)
(* (SessionQueueProcessor over a PendingMessageStore and a shared          *)
(* EventEmitter), of the SessionEventBroadcaster, and of the components    *)
(* around them: fileEditHandler, NoopVectorSync, fetchWithRetry,           *)
(* rateLimitMiddleware and the hybrid search merge.                        *)
(*                                                                         *)
(* The runtime is single-threaded JavaScript: code between two suspension  *)
(* points (await / yield) runs without interleaving, so each action below  *)
(* is one such synchronous stretch, or one callback. Each component has    *)
(* its own specification; the others stay in their initial state.          *)
(***************************************************************************)
EXTENDS Integers, Sequences, FiniteSets, TLC

\* ------------------------------------------------------------------ bounds
MaxEnqueues == 3      \* rows ever enqueued
MaxErrors == 1        \* errors thrown inside loop bodies
MaxLiveEnqueues == 2  \* rows ever enqueued in the liveness runs
MaxEvents == 5        \* length of the outward event stream
MaxNoopCalls == 3     \* calls made on one NoopVectorSync
MaxRetriesArg == 3    \* largest maxRetries option passed to fetchWithRetry
JitterGrain == 4      \* Math.random() takes the values k / JitterGrain
MaxLimit == 2         \* largest maxRequests a middleware is made with
MaxClock == 4         \* last reading of Date.now()
MaxServed == 4        \* requests handled by the middleware
MaxResults == 3       \* largest limit of a hybrid query
MaxVersion == 4       \* largest migration version
MaxRuns == 3          \* completed runs of the migration list
MaxFailedRuns == 1    \* runs ended by a failing migration

\* ------------------------------------------------------------ program data
BackoffMs == 1000     \* setTimeout(resolve, 1000) in the catch block
DefaultMaxRetries == 3      \* fetchWithRetry: maxRetries = 3
DefaultBaseDelayMs == 100   \* fetchWithRetry: baseDelayMs = 100
DefaultMaxDelayMs == 1000   \* fetchWithRetry: maxDelayMs = 1000

Procs == {1, 2}                 \* processors (one createIterator call each)
Sessions == {1, 2}              \* sessionDbId values

VARIABLES
    store,            \* PendingMessageStore rows, in insertion order
    nextId,           \* next row id of the store (autoincrement)
    enqueued,         \* history: every row ever enqueued, in enqueue order
    toNotify,         \* enqueues whose 'message' emit has not run yet
    pc,               \* position of each processor's generator
    session,          \* sessionDbId argument of each createIterator call
    aborted,          \* signal.aborted of each processor's AbortSignal
    preAborted,       \* history: the signal was aborted when createIterator was called
    successor,        \* history: created after a processor of the same session had ended
                      \* and while rows of that session were in the store
    msgListeners,     \* 'message' listeners each processor has on the emitter
    abortListeners,   \* 'abort' listeners each processor has on its signal
    timer,            \* delay of the armed backoff timer, 0 when none
    hasClaimed,       \* history: the iterator has called claimAndDelete
    yielded,          \* history: everything yielded, in yield order
    lost,             \* history: ids of rows removed from the store and never yielded
    errors,           \* history: errors thrown inside loop bodies so far
    sse               \* outward event stream written by SSEBroadcaster.broadcast

VARIABLES
    hookInput,        \* NormalizedHookInput handed to fileEditHandler.execute
    hookEnv,          \* what the handler's collaborators answer during that call
    hookResult        \* how the call ended: not called, returned or threw

VARIABLES
    loggedOnce,       \* NoopVectorSync.loggedOnce
    noopLog           \* history: the calls made on the NoopVectorSync and their results

VARIABLES
    fetchPc,          \* position of the fetchWithRetry call
    fetchOptions,     \* its options argument
    attempt,          \* loop variable of fetchWithRetry
    lastError,        \* lastError of fetchWithRetry
    fetchTrace,       \* history: the fetch attempts and the sleeps, in order
    fetchOutcome      \* how the call ended: response returned or error thrown

VARIABLES
    limiter,          \* the middleware made by rateLimitMiddleware(maxRequests, windowMs)
    clock,            \* Date.now()
    rateLimitStore,   \* the module's Map from rate-limit key to its entry's timestamps
    passed,           \* history: the remote requests handed to next(), key and timestamp
    rejected,         \* history: per key, the time of its latest 429
    served,           \* history: number of requests the middleware has handled
    lastResponse      \* what the middleware did with the latest request

VARIABLES
    searchPc,         \* position of the hybrid query: idle, pending or done
    searchOptions,    \* limit and weights of the hybrid query
    strategyState,    \* per strategy: disabled, pending, ok, failed or timedOut, and its matches
    searchResult,     \* what the hybrid query returned
    arrival           \* history: the strategies that answered in time, in completion order

VARIABLES
    migrationList,    \* the ordered migration list the process was built with
    schema,           \* the store's schema: the DDL applied to it, in order
    schemaVersions,   \* the migrations-applied table: version and applied timestamp
    migrationPc,      \* the startup migration run: idle, running or failed
    migrationIndex,   \* position of the run in the migration list
    migrationRuns,    \* history: runs of the migration list that completed
    migrationFailures,\* history: runs that ended in a failed migration
    firstRun          \* history: schema and records at the end of the first completed run

handlerVars == <<hookInput, hookEnv, hookResult>>
noopVars == <<loggedOnce, noopLog>>
fetchVars == <<fetchPc, fetchOptions, attempt, lastError, fetchTrace, fetchOutcome>>
rateVars == <<limiter, clock, rateLimitStore, passed, rejected, served, lastResponse>>
searchVars == <<searchPc, searchOptions, strategyState, searchResult, arrival>>
migrationVars == <<migrationList, schema, schemaVersions, migrationPc, migrationIndex,
                   migrationRuns, migrationFailures, firstRun>>

\* The state of the components other than the delivery queue and the broadcaster.
auxVars == <<handlerVars, noopVars, fetchVars, rateVars, searchVars, migrationVars>>

vars == <<store, nextId, enqueued, toNotify, pc, session, aborted, preAborted, successor,
          msgListeners, abortListeners, timer, hasClaimed, yielded,
          lost, errors, sse, auxVars>>

queueVars == <<store, nextId, enqueued, toNotify>>
procVars == <<pc, session, aborted, preAborted, successor, msgListeners, abortListeners,
              timer, hasClaimed, yielded, lost, errors>>
coreVars == <<queueVars, procVars, sse>>

\* What a step of one component leaves alone: every other component.
exceptHandler == <<coreVars, noopVars, fetchVars, rateVars, searchVars, migrationVars>>
exceptNoop == <<coreVars, handlerVars, fetchVars, rateVars, searchVars, migrationVars>>
exceptFetch == <<coreVars, handlerVars, noopVars, rateVars, searchVars, migrationVars>>
exceptRate == <<coreVars, handlerVars, noopVars, fetchVars, searchVars, migrationVars>>
exceptSearch == <<coreVars, handlerVars, noopVars, fetchVars, rateVars, migrationVars>>
exceptMigration == <<coreVars, handlerVars, noopVars, fetchVars, rateVars, searchVars>>

\* ------------------------------------------------------- PendingMessageStore

\* makeMessage: payload = JSON.stringify({type: "test", content: `msg-${id}`}),
\* the stored text, here its tokens.
Stringify(id) == <<"{", "test", <<"msg-", id>>, "}">>

\* Date.now() at the n-th enqueue: a clock reading that grows with the enqueues.
Now(n) == 100 + n

\* toPendingMessage of the store: JSON.parse of the payload text.
toPendingMessage(msg) == [type |-> msg.payload[2], content |-> msg.payload[3]]

\* Mutant of FindIndex: the oldest row of the queue, whatever its session.
FindIndex_AnySession(queue, sessionDbId) == IF queue = <<>> THEN 0 ELSE 1

\* Mutant of FindIndex: the newest row of the session instead of the oldest.
FindIndex_Last(queue, sessionDbId) ==
    LET hits == {i \in 1..Len(queue) : queue[i].session_id = sessionDbId}
    IN  IF hits = {} THEN 0 ELSE CHOOSE i \in hits : \A j \in hits : i >= j

\* queue.findIndex(m => m.session_id === sessionDbId); 0 stands for -1.
FindIndex(queue, sessionDbId) ==
    LET hits == {i \in 1..Len(queue) : queue[i].session_id = sessionDbId}
    IN  IF hits = {} THEN 0 ELSE CHOOSE i \in hits : \A j \in hits : i <= j

\* Mutant of Splice: the claimed row is read and stays in the queue.
Splice_Keep(queue, idx) == queue

\* queue.splice(idx, 1): the queue without its idx-th row.
Splice(queue, idx) ==
    [i \in 1..(Len(queue) - 1) |-> IF i < idx THEN queue[i] ELSE queue[i + 1]]

\* Ids of the rows of one session, in queue order.
RECURSIVE IdsOf(_, _)
IdsOf(queue, sessionDbId) ==
    IF queue = <<>> THEN <<>>
    ELSE IF Head(queue).session_id = sessionDbId
         THEN <<Head(queue).id>> \o IdsOf(Tail(queue), sessionDbId)
         ELSE IdsOf(Tail(queue), sessionDbId)

\* ---------------------------------------------------- SessionQueueProcessor

\* toPendingMessageWithId: the converted message plus the row's id and timestamp.
toPendingMessageWithId(msg) ==
    [pending |-> toPendingMessage(msg),
     _persistentId |-> msg.id,
     _originalTimestamp |-> msg.created_at_epoch]

\* Mutant of LoopGuard: the signal is not consulted.
LoopGuard_Always(sigAborted) == TRUE

\* while (!signal.aborted)
LoopGuard(sigAborted) == ~sigAborted

\* Mutant of CatchOutcome: any error ends the generator.
CatchOutcome_Return(sigAborted) == "done"

\* catch (error) { if (signal.aborted) return; ...; await setTimeout(1000) }
CatchOutcome(sigAborted) == IF sigAborted THEN "done" ELSE "backoff"

\* Mutant of Cleanup: the listeners stay registered.
Cleanup_Keep(listeners, p) == listeners

\* Mutant of Cleanup: every listener of the shared emitter is removed.
Cleanup_All(listeners, p) == [q \in Procs |-> 0]

\* cleanup() of waitForMessage: events.off("message", onMessage) and
\* signal.removeEventListener("abort", onAbort), of the processor that parked.
Cleanup(listeners, p) == [listeners EXCEPT ![p] = 0]

\* Mutant of Subscribe: no 'message' listener is registered.
Subscribe_None(listeners, p) == listeners

\* events.once("message", onMessage): one more listener of the parking processor.
Subscribe(listeners, p) == [listeners EXCEPT ![p] = @ + 1]

\* Mutant of SubscribeAbort: no 'abort' listener is registered.
SubscribeAbort_None(listeners, p) == listeners

\* signal.addEventListener("abort", onAbort, { once: true })
SubscribeAbort(listeners, p) == [listeners EXCEPT ![p] = @ + 1]

\* No fileEditHandler call has been made.
HandlerIdle ==
    /\ hookInput = [called |-> FALSE]
    /\ hookEnv = [called |-> FALSE]
    /\ hookResult = [kind |-> "none"]

\* new NoopVectorSync(project).
NoopIdle ==
    /\ loggedOnce = FALSE
    /\ noopLog = <<>>

\* An error value that stands for "no error" (lastError undefined).
NoError == [id |-> 0, isError |-> FALSE, code |-> "", message |-> {}]

\* fetchWithRetry has not been called.
FetchIdle ==
    /\ fetchPc = "idle"
    /\ fetchOptions = [called |-> FALSE]
    /\ attempt = 0
    /\ lastError = NoError
    /\ fetchTrace = <<>>
    /\ fetchOutcome = [kind |-> "none"]

\* The rate-limit module is loaded (empty Map); no middleware is made yet.
RateIdle ==
    /\ limiter = [created |-> FALSE]
    /\ clock = 0
    /\ rateLimitStore = <<>>
    /\ passed = <<>>
    /\ rejected = <<>>
    /\ served = 0
    /\ lastResponse = [seq |-> 0]

Strategies == {"lexical", "vector"}

\* No hybrid query is running.
SearchIdle ==
    /\ searchPc = "idle"
    /\ searchOptions = [called |-> FALSE]
    /\ strategyState = [s \in Strategies |-> [status |-> "disabled", matches |-> {}]]
    /\ searchResult = [kind |-> "none"]
    /\ arrival = <<>>

\* An empty store, before the process has started.
MigrationIdle ==
    /\ migrationList = <<>>
    /\ schema = <<>>
    /\ schemaVersions = <<>>
    /\ migrationPc = "idle"
    /\ migrationIndex = 0
    /\ migrationRuns = 0
    /\ migrationFailures = 0
    /\ firstRun = [taken |-> FALSE, schema |-> <<>>, schemaVersions |-> <<>>]

\* The other components are not exercised.
AuxIdle == HandlerIdle /\ NoopIdle /\ FetchIdle /\ RateIdle /\ SearchIdle /\ MigrationIdle

\* The delivery queue and the broadcaster after construction.
CoreInit ==
    /\ store = <<>>
    /\ nextId = 1
    /\ enqueued = <<>>
    /\ toNotify = 0
    /\ pc = [p \in Procs |-> "none"]
    /\ session = [p \in Procs |-> 1]
    /\ aborted = [p \in Procs |-> FALSE]
    /\ preAborted = [p \in Procs |-> FALSE]
    /\ successor = [p \in Procs |-> FALSE]
    /\ msgListeners = [p \in Procs |-> 0]
    /\ abortListeners = [p \in Procs |-> 0]
    /\ timer = [p \in Procs |-> 0]
    /\ hasClaimed = [p \in Procs |-> FALSE]
    /\ yielded = <<>>
    /\ lost = {}
    /\ errors = 0
    /\ sse = <<>>

Init == CoreInit /\ AuxIdle

\* The positions of the yield history that processor p filled.
YieldsOf(p) == {i \in 1..Len(yielded) : yielded[i].proc = p}

\* enqueue(sessionId, payload): durably appends a row.
Enqueue(sessionDbId) ==
    /\ nextId <= MaxEnqueues
    /\ LET row == [id |-> nextId, session_id |-> sessionDbId,
                   payload |-> Stringify(nextId), created_at_epoch |-> Now(nextId)]
       IN  /\ store' = Append(store, row)
           /\ enqueued' = Append(enqueued, row)
    /\ nextId' = nextId + 1
    /\ toNotify' = toNotify + 1
    /\ UNCHANGED <<auxVars, procVars, sse>>

\* events.emit("message"): every registered onMessage runs cleanup() and resolve().
Notify ==
    /\ toNotify > 0
    /\ toNotify' = toNotify - 1
    /\ LET woken == {p \in Procs : msgListeners[p] > 0}
       IN  /\ pc' = [p \in Procs |-> IF p \in woken THEN "top" ELSE pc[p]]
           /\ msgListeners' = [p \in Procs |->
                                 IF p \in woken THEN Cleanup(msgListeners, p)[p]
                                 ELSE msgListeners[p]]
           /\ abortListeners' = [p \in Procs |->
                                   IF p \in woken THEN Cleanup(abortListeners, p)[p]
                                   ELSE abortListeners[p]]
    /\ UNCHANGED <<auxVars, store, nextId, enqueued, session, aborted, preAborted, successor, timer,
                   hasClaimed, yielded, lost, errors, sse>>

\* processor.createIterator(sessionDbId, signal), pulled by a for-await consumer.
CreateIterator(p, sessionDbId, sigAborted) ==
    /\ pc[p] = "none"
    /\ \A q \in Procs : q < p => pc[q] # "none"   \* processors are numbered as created
    /\ pc' = [pc EXCEPT ![p] = "top"]
    /\ session' = [session EXCEPT ![p] = sessionDbId]
    /\ aborted' = [aborted EXCEPT ![p] = sigAborted]
    /\ preAborted' = [preAborted EXCEPT ![p] = sigAborted]
    /\ successor' = [successor EXCEPT ![p] =
                       /\ \E q \in Procs : pc[q] = "done" /\ session[q] = sessionDbId
                       /\ FindIndex(store, sessionDbId) # 0]
    /\ UNCHANGED <<auxVars, queueVars, msgListeners, abortListeners, timer, hasClaimed,
                   yielded, lost, errors, sse>>

\* controller.abort(): sets signal.aborted and runs a registered onAbort.
Abort(p) ==
    /\ pc[p] \notin {"none", "done"}
    /\ ~aborted[p]
    /\ aborted' = [aborted EXCEPT ![p] = TRUE]
    /\ IF abortListeners[p] > 0
       THEN /\ pc' = [pc EXCEPT ![p] = "top"]
            /\ msgListeners' = Cleanup(msgListeners, p)
            /\ abortListeners' = Cleanup(abortListeners, p)
       ELSE UNCHANGED <<pc, msgListeners, abortListeners>>
    /\ UNCHANGED <<auxVars, queueVars, session, preAborted, successor, timer, hasClaimed,
                   yielded, lost, errors, sse>>

\* Mutant of LoopExit: the ending generator deletes its session's rows.
LoopExit_Drain(p) ==
    /\ pc[p] = "top"
    /\ ~LoopGuard(aborted[p])
    /\ pc' = [pc EXCEPT ![p] = "done"]
    /\ store' = SelectSeq(store, LAMBDA r : r.session_id # session[p])
    /\ UNCHANGED <<auxVars, nextId, enqueued, toNotify, session, aborted, preAborted, successor,
                   msgListeners, abortListeners, timer, hasClaimed, yielded,
                   lost, errors, sse>>

\* The while condition is false: the generator returns.
LoopExit(p) ==
    /\ pc[p] = "top"
    /\ ~LoopGuard(aborted[p])
    /\ pc' = [pc EXCEPT ![p] = "done"]
    /\ UNCHANGED <<auxVars, queueVars, session, aborted, preAborted, successor, msgListeners,
                   abortListeners, timer, hasClaimed, yielded, lost, errors, sse>>

\* claimAndDelete returns a row: it is converted and yielded.
ClaimYield(p) ==
    /\ pc[p] = "top"
    /\ LoopGuard(aborted[p])
    /\ LET idx == FindIndex(store, session[p])
       IN  /\ idx # 0
           /\ store' = Splice(store, idx)
           /\ yielded' = Append(yielded, [proc |-> p, session_id |-> session[p],
                                          msg |-> toPendingMessageWithId(store[idx])])
    /\ hasClaimed' = [hasClaimed EXCEPT ![p] = TRUE]
    /\ pc' = [pc EXCEPT ![p] = "yielded"]
    /\ UNCHANGED <<auxVars, nextId, enqueued, toNotify, session, aborted, preAborted, successor,
                   msgListeners, abortListeners, timer, lost, errors, sse>>

\* Mutant of ClaimPark: the listeners are registered on a claim result that is
\* out of date, rows may have been enqueued and signalled since.
ClaimPark_Stale(p) ==
    /\ pc[p] = "top"
    /\ LoopGuard(aborted[p])
    /\ hasClaimed' = [hasClaimed EXCEPT ![p] = TRUE]
    /\ msgListeners' = Subscribe(msgListeners, p)
    /\ abortListeners' = SubscribeAbort(abortListeners, p)
    /\ pc' = [pc EXCEPT ![p] = "parked"]
    /\ UNCHANGED <<auxVars, queueVars, session, aborted, preAborted, successor, timer,
                   yielded, lost, errors, sse>>

\* claimAndDelete returns null: waitForMessage registers its listeners and parks.
ClaimPark(p) ==
    /\ pc[p] = "top"
    /\ LoopGuard(aborted[p])
    /\ FindIndex(store, session[p]) = 0
    /\ hasClaimed' = [hasClaimed EXCEPT ![p] = TRUE]
    /\ msgListeners' = Subscribe(msgListeners, p)
    /\ abortListeners' = SubscribeAbort(abortListeners, p)
    /\ pc' = [pc EXCEPT ![p] = "parked"]
    /\ UNCHANGED <<auxVars, queueVars, session, aborted, preAborted, successor, timer,
                   yielded, lost, errors, sse>>

\* claimAndDelete throws a transient storage error (nothing is removed): the catch block.
ClaimThrows(p) ==
    /\ pc[p] = "top"
    /\ LoopGuard(aborted[p])
    /\ errors < MaxErrors
    /\ errors' = errors + 1
    /\ hasClaimed' = [hasClaimed EXCEPT ![p] = TRUE]
    /\ pc' = [pc EXCEPT ![p] = CatchOutcome(aborted[p])]
    /\ timer' = [timer EXCEPT ![p] = IF CatchOutcome(aborted[p]) = "backoff" THEN BackoffMs ELSE 0]
    /\ UNCHANGED <<auxVars, queueVars, session, aborted, preAborted, successor, msgListeners,
                   abortListeners, yielded, lost, sse>>

\* claimAndDelete returns a row and toPendingMessageWithId throws: the row is gone
\* from the store, nothing is yielded, and the catch block runs.
ClaimConvertThrows(p) ==
    /\ pc[p] = "top"
    /\ LoopGuard(aborted[p])
    /\ errors < MaxErrors
    /\ LET idx == FindIndex(store, session[p])
       IN  /\ idx # 0
           /\ store' = Splice(store, idx)
           /\ lost' = lost \cup {store[idx].id}
    /\ errors' = errors + 1
    /\ hasClaimed' = [hasClaimed EXCEPT ![p] = TRUE]
    /\ pc' = [pc EXCEPT ![p] = CatchOutcome(aborted[p])]
    /\ timer' = [timer EXCEPT ![p] = IF CatchOutcome(aborted[p]) = "backoff" THEN BackoffMs ELSE 0]
    /\ UNCHANGED <<auxVars, nextId, enqueued, toNotify, session, aborted, preAborted, successor,
                   msgListeners, abortListeners, yielded, sse>>

\* Mutant of BackoffElapsed: after the backoff the claim is retried at once,
\* the loop condition is not evaluated.
BackoffElapsed_Retry(p) ==
    /\ pc[p] = "backoff"
    /\ timer[p] > 0
    /\ timer' = [timer EXCEPT ![p] = 0]
    /\ LET idx == FindIndex(store, session[p])
       IN  IF idx # 0
           THEN /\ store' = Splice(store, idx)
                /\ yielded' = Append(yielded, [proc |-> p, session_id |-> session[p],
                                               msg |-> toPendingMessageWithId(store[idx])])
                /\ pc' = [pc EXCEPT ![p] = "yielded"]
           ELSE /\ pc' = [pc EXCEPT ![p] = "top"]
                /\ UNCHANGED <<store, yielded>>
    /\ UNCHANGED <<auxVars, nextId, enqueued, toNotify, session, aborted, preAborted, successor,
                   msgListeners, abortListeners, hasClaimed, lost, errors, sse>>

\* The backoff timer fires: the loop condition is evaluated next.
BackoffElapsed(p) ==
    /\ pc[p] = "backoff"
    /\ timer[p] > 0
    /\ timer' = [timer EXCEPT ![p] = 0]
    /\ pc' = [pc EXCEPT ![p] = "top"]
    /\ UNCHANGED <<auxVars, queueVars, session, aborted, preAborted, successor, msgListeners,
                   abortListeners, hasClaimed, yielded, lost, errors, sse>>

\* Mutant of Resume: after a yield the generator waits for a 'message' before
\* it claims again.
Resume_Wait(p) ==
    /\ pc[p] = "yielded"
    /\ msgListeners' = Subscribe(msgListeners, p)
    /\ abortListeners' = SubscribeAbort(abortListeners, p)
    /\ pc' = [pc EXCEPT ![p] = "parked"]
    /\ UNCHANGED <<auxVars, queueVars, session, aborted, preAborted, successor, timer,
                   hasClaimed, yielded, lost, errors, sse>>

\* The for-await consumer finished its body and calls next(): the generator resumes after yield.
Resume(p) ==
    /\ pc[p] = "yielded"
    /\ pc' = [pc EXCEPT ![p] = "top"]
    /\ UNCHANGED <<auxVars, queueVars, session, aborted, preAborted, successor, msgListeners,
                   abortListeners, timer, hasClaimed, yielded, lost, errors, sse>>

ProcStep(p) ==
    \/ LoopExit(p)
    \/ ClaimYield(p)
    \/ ClaimPark(p)
    \/ ClaimThrows(p)
    \/ BackoffElapsed(p)
    \/ Resume(p)

Next ==
    \/ \E s \in Sessions : Enqueue(s)
    \/ Notify
    \/ \E p \in Procs, s \in Sessions, a \in BOOLEAN : CreateIterator(p, s, a)
    \/ \E p \in Procs : Abort(p)
    \/ \E p \in Procs : ProcStep(p)

Spec == Init /\ [][Next]_vars

\* The event loop runs every queued continuation, timer and emit, and the
\* for-await consumer keeps pulling.
Fairness == WF_vars(Notify) /\ \A p \in Procs : WF_vars(ProcStep(p))

\* The liveness runs allow fewer enqueues than the safety runs.
NextLive ==
    \/ \E s \in Sessions : nextId <= MaxLiveEnqueues /\ Enqueue(s)
    \/ Notify
    \/ \E p \in Procs, s \in Sessions, a \in BOOLEAN : CreateIterator(p, s, a)
    \/ \E p \in Procs : Abort(p)
    \/ \E p \in Procs : ProcStep(p)

SpecLive == Init /\ [][NextLive]_vars /\ Fairness

\* The same loop where no emit of 'message' is ever owed: only the processors'
\* own continuations and their consumers are scheduled.
SpecBacklog == Init /\ [][NextLive]_vars /\ \A p \in Procs : WF_vars(ProcStep(p))

\* The loop where the conversion of a claimed row may throw as well.
NextFault == Next \/ \E p \in Procs : ClaimConvertThrows(p)

SpecFault == Init /\ [][NextFault]_vars

\* Mutant of ConsumerCrash: the claimed row is put back at the head of the store.
ConsumerCrash_Requeue(p) ==
    /\ pc[p] = "yielded"
    /\ pc' = [pc EXCEPT ![p] = "done"]
    /\ LET last == yielded[CHOOSE i \in YieldsOf(p) : \A j \in YieldsOf(p) : j <= i]
           row == CHOOSE r \in {enqueued[k] : k \in 1..Len(enqueued)} :
                      r.id = last.msg._persistentId
       IN  store' = <<row>> \o store
    /\ UNCHANGED <<auxVars, nextId, enqueued, toNotify, session, aborted, preAborted, successor,
                   msgListeners, abortListeners, timer, hasClaimed, yielded, lost, errors, sse>>

\* The consumer dies in its loop body while the generator is suspended at the
\* yield: the generator is never resumed (its return() ends it there). The row
\* it handed over was deleted by claimAndDelete and exists in memory only.
ConsumerCrash(p) ==
    /\ pc[p] = "yielded"
    /\ pc' = [pc EXCEPT ![p] = "done"]
    /\ UNCHANGED <<auxVars, queueVars, session, aborted, preAborted, successor, msgListeners,
                   abortListeners, timer, hasClaimed, yielded, lost, errors, sse>>

\* The loop with consumers that may die while handling a message.
NextCrash == Next \/ \E p \in Procs : ConsumerCrash(p)

SpecCrash == Init /\ [][NextCrash]_vars

\* -------------------------------------------------- SessionEventBroadcaster

Prompts == {1}                  \* prompt.id values

\* An event handed to sseBroadcaster.broadcast, with every field present.
Event(type, sessionDbId, prompt, timestamp) ==
    [type |-> type, sessionDbId |-> sessionDbId, prompt |-> prompt,
     timestamp |-> timestamp, isProcessing |-> FALSE, queueDepth |-> 0,
     recomputed |-> FALSE]

\* { type: "processing_status", isProcessing: true }: the status broadcastNewPrompt
\* writes itself.
FixedStatus ==
    [type |-> "processing_status", sessionDbId |-> 0, prompt |-> 0, timestamp |-> 0,
     isProcessing |-> TRUE, queueDepth |-> 0, recomputed |-> FALSE]

\* workerService.broadcastProcessingStatus(): the aggregate status computed from
\* the pending queue as it is at the call.
ProcessingStatus ==
    [type |-> "processing_status", sessionDbId |-> 0, prompt |-> 0, timestamp |-> 0,
     isProcessing |-> (Len(store) > 0), queueDepth |-> Len(store), recomputed |-> TRUE]

\* sseBroadcaster.broadcast(e1); ...: the events of one synchronous method call.
Broadcast(events) ==
    /\ Len(sse) + Len(events) <= MaxEvents
    /\ sse' = sse \o events
    /\ UNCHANGED <<auxVars, queueVars, procVars>>

broadcastNewPrompt(prompt) ==
    Broadcast(<<Event("new_prompt", 0, prompt, 0), FixedStatus, ProcessingStatus>>)

broadcastSessionStarted(sessionDbId) ==
    Broadcast(<<Event("session_started", sessionDbId, 0, 0), ProcessingStatus>>)

broadcastObservationQueued(sessionDbId) ==
    Broadcast(<<Event("observation_queued", sessionDbId, 0, 0), ProcessingStatus>>)

\* Mutant of broadcastSessionCompleted: the status is not broadcast after the event.
broadcastSessionCompleted_NoStatus(sessionDbId) ==
    Broadcast(<<Event("session_completed", sessionDbId, 0, Now(Len(sse)))>>)

broadcastSessionCompleted(sessionDbId) ==
    Broadcast(<<Event("session_completed", sessionDbId, 0, Now(Len(sse))), ProcessingStatus>>)

broadcastSummarizeQueued ==
    Broadcast(<<ProcessingStatus>>)

\* The broadcaster's callers, and the enqueues that change what the status reports.
NextBroadcast ==
    \/ \E s \in Sessions : Enqueue(s)
    \/ \E prompt \in Prompts : broadcastNewPrompt(prompt)
    \/ \E s \in Sessions : broadcastSessionStarted(s)
    \/ \E s \in Sessions : broadcastObservationQueued(s)
    \/ \E s \in Sessions : broadcastSessionCompleted(s)
    \/ broadcastSummarizeQueued

SpecBroadcast == Init /\ [][NextBroadcast]_vars

\* -------------------------------------------------------- NoopVectorSync

NoopOps == {"syncObservation", "syncSummary", "syncUserPrompt", "ensureBackfilled",
            "query", "close", "isHealthy"}

\* The methods that call this.logDisabled() first.
LoggingOps == NoopOps \ {"close", "isHealthy"}

\* logDisabled(): logs once and sets loggedOnce.
logDisabled(logged) == TRUE

\* What a resolved call hands back.
Void == [kind |-> "void"]

\* Mutant of query: the result carries an id.
query_NonEmpty == [kind |-> "result", ids |-> <<1>>, distances |-> <<0>>, metadatas |-> <<0>>]

\* query(): { ids: [], distances: [], metadatas: [] }.
query == [kind |-> "result", ids |-> <<>>, distances |-> <<>>, metadatas |-> <<>>]

\* isHealthy(): true.
isHealthy == [kind |-> "boolean", value |-> TRUE]

\* One awaited call of a NoopVectorSync method.
NoopCall(op) ==
    /\ Len(noopLog) < MaxNoopCalls
    /\ loggedOnce' = IF op \in LoggingOps THEN logDisabled(loggedOnce) ELSE loggedOnce
    /\ noopLog' = Append(noopLog,
                         [op |-> op,
                          result |-> CASE op = "query" -> query
                                       [] op = "isHealthy" -> isHealthy
                                       [] OTHER -> Void])
    /\ UNCHANGED exceptNoop

NextNoop == \E op \in NoopOps : NoopCall(op)

SpecNoop == Init /\ [][NextNoop]_vars

\* --------------------------------------------------------- fetchWithRetry

RETRYABLE_ERRORS == {"ECONNRESET", "ECONNREFUSED", "ETIMEDOUT", "ENOTFOUND", "EAI_AGAIN",
                     "UND_ERR_SOCKET", "UND_ERR_CONNECT_TIMEOUT", "UND_ERR_HEADERS_TIMEOUT"}

\* What a rejected fetch throws: an Error with a code, an Error whose message
\* only names the code, an Error of another kind, and a thrown value that is
\* not an Error. message holds the words of the text; code "" is no code.
ThrownValues ==
    {[isError |-> TRUE, code |-> "ECONNRESET", message |-> {"read", "ECONNRESET"}],
     [isError |-> TRUE, code |-> "", message |-> {"connect", "ETIMEDOUT"}],
     [isError |-> TRUE, code |-> "ERR_INVALID_URL", message |-> {"Invalid", "URL"}],
     [isError |-> FALSE, code |-> "ECONNRESET", message |-> {"ECONNRESET"}]}

\* The value thrown by the fetch of one attempt; id tells the throws apart.
Thrown(value, n) ==
    [id |-> n + 1, isError |-> value.isError, code |-> value.code, message |-> value.message]

\* new Error("fetchWithRetry failed")
GenericError == [id |-> 0, isError |-> TRUE, code |-> "", message |-> {"fetchWithRetry", "failed"}]

isRetryableError(error) ==
    IF error.isError
    THEN IF error.code # "" /\ error.code \in RETRYABLE_ERRORS
         THEN TRUE
         ELSE \E e \in RETRYABLE_ERRORS : e \in error.message
    ELSE FALSE

\* Math.round of the non-negative rational num / den.
Round(num, den) == (2 * num + den) \div (2 * den)

Min(a, b) == IF a <= b THEN a ELSE b

\* getBackoffDelay(attempt, baseMs, maxMs) with Math.random() = k / JitterGrain:
\* capped + capped * 0.25 * (2k/JitterGrain - 1), rounded.
getBackoffDelay(n, baseMs, maxMs, k) ==
    LET exponential == baseMs * 2^n
        capped == Min(exponential, maxMs)
    IN  Round(capped * (3 * JitterGrain + 2 * k), 4 * JitterGrain)

\* An optional field of FetchWithRetryOptions, and its destructuring default.
Unset == [defined |-> FALSE, value |-> 0]
Given(n) == [defined |-> TRUE, value |-> n]
OrDefault(field, default) == IF field.defined THEN field.value ELSE default

maxRetries == OrDefault(fetchOptions.maxRetries, DefaultMaxRetries)
baseDelayMs == OrDefault(fetchOptions.baseDelayMs, DefaultBaseDelayMs)
maxDelayMs == OrDefault(fetchOptions.maxDelayMs, DefaultMaxDelayMs)

\* Mutant of Exhausted: the catch block never gives up.
Exhausted_Never(n, retries) == FALSE

\* attempt >= maxRetries
Exhausted(n, retries) == n >= retries

\* Mutant of ShouldThrow: only the last attempt's error ends the call.
ShouldThrow_OnlyExhausted(error, n, retries) == Exhausted(n, retries)

\* if (!isRetryableError(error)) throw error; if (attempt >= maxRetries) throw error;
ShouldThrow(error, n, retries) == ~isRetryableError(error) \/ Exhausted(n, retries)

\* Mutant of Rethrow: a new error is thrown in place of the caught one.
Rethrow_Generic(error) == GenericError

\* throw error, in the catch block.
Rethrow(error) == error

\* fetchWithRetry(url, init, options), up to the first await, or past the loop
\* when it has no iteration.
FetchStart(options) ==
    /\ fetchPc = "idle"
    /\ fetchOptions' = options
    /\ attempt' = 0
    /\ IF 0 <= OrDefault(options.maxRetries, DefaultMaxRetries)
       THEN /\ fetchPc' = "fetching"
            /\ fetchOutcome' = fetchOutcome
       ELSE /\ fetchPc' = "threw"
            /\ fetchOutcome' = [kind |-> "throw", error |-> GenericError]
    /\ UNCHANGED <<lastError, fetchTrace, exceptFetch>>

\* return await fetch(url, init): the fetch resolves.
FetchResolves ==
    /\ fetchPc = "fetching"
    /\ fetchTrace' = Append(fetchTrace, [type |-> "fetch", attempt |-> attempt, ok |-> TRUE,
                                         error |-> NoError, delay |-> 0])
    /\ fetchPc' = "returned"
    /\ fetchOutcome' = [kind |-> "return", response |-> attempt]
    /\ UNCHANGED <<fetchOptions, attempt, lastError, exceptFetch>>

\* The fetch rejects: the catch block, up to its throw or its sleep.
FetchRejects(value, k) ==
    /\ fetchPc = "fetching"
    /\ LET error == Thrown(value, attempt) IN
       /\ lastError' = error
       /\ IF ShouldThrow(error, attempt, maxRetries)
          THEN /\ fetchTrace' = Append(fetchTrace,
                                       [type |-> "fetch", attempt |-> attempt, ok |-> FALSE,
                                        error |-> error, delay |-> 0])
               /\ fetchPc' = "threw"
               /\ fetchOutcome' = [kind |-> "throw", error |-> Rethrow(error)]
          ELSE /\ fetchTrace' = fetchTrace \o
                                <<[type |-> "fetch", attempt |-> attempt, ok |-> FALSE,
                                   error |-> error, delay |-> 0],
                                  [type |-> "sleep", attempt |-> attempt, ok |-> FALSE,
                                   error |-> NoError,
                                   delay |-> getBackoffDelay(attempt, baseDelayMs,
                                                             maxDelayMs, k)]>>
               /\ fetchPc' = "sleeping"
               /\ fetchOutcome' = fetchOutcome
    /\ UNCHANGED <<fetchOptions, attempt, exceptFetch>>

\* The sleep ends: attempt++, the loop condition, the next fetch or the throw
\* after the loop.
SleepElapsed ==
    /\ fetchPc = "sleeping"
    /\ attempt' = attempt + 1
    /\ IF attempt + 1 <= maxRetries
       THEN /\ fetchPc' = "fetching"
            /\ fetchOutcome' = fetchOutcome
       ELSE /\ fetchPc' = "threw"
            /\ fetchOutcome' = [kind |-> "throw", error |-> lastError]
    /\ UNCHANGED <<fetchOptions, lastError, fetchTrace, exceptFetch>>

\* The options a caller passes: nothing, or some of the three fields.
BaseDelayArgs == {1000}
MaxDelayArgs == {100}
FetchOptions ==
    [called : {TRUE},
     maxRetries : {Unset} \cup {Given(n) : n \in -1..MaxRetriesArg},
     baseDelayMs : {Unset} \cup {Given(ms) : ms \in BaseDelayArgs},
     maxDelayMs : {Unset} \cup {Given(ms) : ms \in MaxDelayArgs}]

\* The steps the runtime takes once the call is made.
FetchStep ==
    \/ FetchResolves
    \/ \E value \in ThrownValues, k \in 0..(JitterGrain - 1) : FetchRejects(value, k)
    \/ SleepElapsed

NextFetch ==
    \/ \E options \in FetchOptions : FetchStart(options)
    \/ FetchStep

\* Every fetch settles and every timer fires.
SpecFetch == Init /\ [][NextFetch]_vars /\ WF_vars(FetchStep)

\* ------------------------------------------------------- fileEditHandler

\* A value of type string | undefined holding a path: undefined, or a string
\* that is rooted ("/" first) or not, with its segments ("" has none).
NoValue == [defined |-> FALSE, rooted |-> FALSE, segs |-> <<>>]
Path(rooted, segs) == [defined |-> TRUE, rooted |-> rooted, segs |-> segs]

Cwds == {NoValue, Path(FALSE, <<>>), Path(TRUE, <<>>), Path(TRUE, <<"repos", "app">>)}
FilePaths == {NoValue, Path(FALSE, <<>>), Path(TRUE, <<"repos", "app", "a.ts">>)}
ProjectNames == {"app", "unknown-project"}

\* !value of JavaScript for a string | undefined.
Falsy(value) == ~value.defined \/ (~value.rooted /\ value.segs = <<>>)

\* path.basename on a POSIX platform.
Basename(value) == IF value.segs = <<>> THEN "" ELSE value.segs[Len(value.segs)]

\* getProjectName(cwd): the last segment of cwd, "unknown-project" for a missing
\* or empty cwd and for the root directory.
getProjectName(cwd) ==
    IF Falsy(cwd) THEN "unknown-project"
    ELSE IF Basename(cwd) = "" THEN "unknown-project"
    ELSE Basename(cwd)

\* isProjectExcluded(project): the project is named by CLAUDE_PILOT_EXCLUDE_PROJECTS.
isProjectExcluded(project, env) == project \in env.excluded

\* Mutant of isMemoryDisabledByProjectConfig: the project's configuration is not read.
isMemoryDisabledByProjectConfig_Unread(cwd, env) == FALSE

\* isMemoryDisabledByProjectConfig(cwd): what .pilot/memory.json of cwd says.
isMemoryDisabledByProjectConfig(cwd, env) == env.memoryDisabled

\* return { continue: true, suppressOutput: true }, with and without the
\* observation having been posted.
\* posts counts the POST requests the call issued.
HookReturn(sent, project, posts) ==
    [kind |-> "return", continue |-> TRUE, suppressOutput |-> TRUE, sent |-> sent,
     project |-> project, error |-> "", posts |-> posts]
HookThrow(error, project, posts) ==
    [kind |-> "throw", continue |-> FALSE, suppressOutput |-> FALSE, sent |-> FALSE,
     project |-> project, error |-> error, posts |-> posts]

\* What the network does with one POST: a response with its ok flag, or a
\* rejected fetch with the value it throws.
Response(ok) == [kind |-> "response", ok |-> ok, value |-> NoError]
Reject(value) == [kind |-> "reject", ok |-> FALSE, value |-> value]
NetworkOutcomes ==
    {Response(TRUE), Response(FALSE)} \cup
    {Reject(value) : value \in {v \in ThrownValues : v.isError /\ v.code # ""}}

\* The POST is answered or fails for good: fetchWithRetry issues no further one.
Settles(outcome, n) ==
    \/ outcome.kind = "response"
    \/ ShouldThrow(Thrown(outcome.value, n), n, DefaultMaxRetries)

\* What the network does with the POSTs of one call, one outcome per attempt
\* up to the one that settles the call.
NetworkScripts ==
    {script \in UNION {[1..n -> NetworkOutcomes] : n \in 1..(DefaultMaxRetries + 1)} :
        /\ Settles(script[Len(script)], Len(script) - 1)
        /\ \A i \in 1..(Len(script) - 1) : ~Settles(script[i], i - 1)}

\* fetchWithRetry(url, init) with the default options, from attempt n to its
\* end: the POSTs issued, and the response returned or the error thrown.
RECURSIVE fetchWithRetry(_, _)
fetchWithRetry(network, n) ==
    LET outcome == network[n + 1] IN
    IF outcome.kind = "response"
    THEN [kind |-> "return", ok |-> outcome.ok, error |-> NoError, posts |-> n + 1]
    ELSE LET error == Thrown(outcome.value, n) IN
         IF ShouldThrow(error, n, DefaultMaxRetries)
         THEN [kind |-> "throw", ok |-> FALSE, error |-> Rethrow(error), posts |-> n + 1]
         ELSE fetchWithRetry(network, n + 1)

\* Mutant of ResponseFailed: the status of the response is not looked at.
ResponseFailed_Never(response) == FALSE

\* if (!response.ok)
ResponseFailed(response) == ~response.ok

\* fileEditHandler.execute(input), in the order of its statements.
fileEditExecute(input, env) ==
    IF ~env.workerReady THEN HookReturn(FALSE, "", 0)
    ELSE IF Falsy(input.filePath) THEN HookThrow("fileEditHandler requires filePath", "", 0)
    ELSE IF isMemoryDisabledByProjectConfig(input.cwd, env) THEN HookReturn(FALSE, "", 0)
    ELSE LET project == getProjectName(input.cwd) IN
         IF isProjectExcluded(project, env) THEN HookReturn(FALSE, project, 0)
         ELSE IF Falsy(input.cwd)
              THEN HookThrow("Missing cwd in FileEdit hook input", project, 0)
         ELSE LET response == fetchWithRetry(env.network, 0) IN
              IF response.kind = "throw"
              THEN HookThrow(response.error.code, project, response.posts)
              ELSE IF ResponseFailed(response)
                   THEN HookThrow("File edit observation storage failed", project,
                                  response.posts)
              ELSE HookReturn(TRUE, project, response.posts)

\* One call of fileEditHandler.execute, from its input to its result. A hook
\* process makes one call.
Execute(input, env) ==
    /\ hookResult.kind = "none"
    /\ hookInput' = input
    /\ hookEnv' = env
    /\ hookResult' = fileEditExecute(input, env)
    /\ UNCHANGED exceptHandler

NextHandler ==
    \E c \in Cwds, f \in FilePaths, ready \in BOOLEAN, disabled \in BOOLEAN,
       projects \in SUBSET ProjectNames, script \in NetworkScripts :
        Execute([called |-> TRUE, sessionId |-> "s1", cwd |-> c, filePath |-> f,
                 edits |-> 0],
                [called |-> TRUE, workerReady |-> ready, memoryDisabled |-> disabled,
                 excluded |-> projects, network |-> script])

SpecHandler == Init /\ [][NextHandler]_vars

\* ---------------------------------------------------- rateLimitMiddleware

\* Strings whose characters matter are sequences of characters; an absent
\* header is <<>> and an absent address is "", both falsy like undefined.
Bearer == <<"B", "e", "a", "r", "e", "r", " ">>
TokenA == [i \in 1..17 |-> IF i = 17 THEN "x" ELSE "a"]

\* The requests that arrive: three from localhost, two remote clients without
\* a token (one known only by its socket address), one remote client with one.
Requests ==
    {[ip |-> "127.0.0.1", remoteAddress |-> "127.0.0.1", authorization |-> <<>>],
     [ip |-> "::1", remoteAddress |-> "::1", authorization |-> Bearer \o TokenA],
     [ip |-> "::ffff:127.0.0.1", remoteAddress |-> "::ffff:127.0.0.1", authorization |-> <<>>],
     [ip |-> "10.0.0.1", remoteAddress |-> "10.0.0.1", authorization |-> <<>>],
     [ip |-> "", remoteAddress |-> "10.0.0.1", authorization |-> Bearer],
     [ip |-> "10.0.0.2", remoteAddress |-> "10.0.0.2", authorization |-> Bearer \o TokenA]}

\* a || b on strings.
OrElse(a, b) == IF a # "" THEN a ELSE b

\* Mutant of isLocalRequest: no request counts as local.
isLocalRequest_Never(req) == FALSE

isLocalRequest(req) ==
    LET clientIp == OrElse(req.ip, OrElse(req.remoteAddress, ""))
    IN  clientIp = "127.0.0.1" \/ clientIp = "::1" \/ clientIp = "::ffff:127.0.0.1"

\* String.prototype.slice(from, to) for 0 <= from <= to.
Slice(text, from, to) == SubSeq(text, from + 1, Min(to, Len(text)))

\* getRateLimitKey(req): `token:${token}` or `ip:${...}`.
getRateLimitKey(req) ==
    LET token == Slice(req.authorization, 7, 23)
    IN  IF token # <<>>
        THEN <<"token:">> \o token
        ELSE <<"ip:", OrElse(req.ip, OrElse(req.remoteAddress, "unknown"))>>

\* Math.ceil(a / b) for positive integers.
Ceil(a, b) == (a + b - 1) \div b

\* Mutant of InWindow: a timestamp at the cutoff still counts.
InWindow_Inclusive(ts, cutoff) == ts >= cutoff

\* (ts) => ts > cutoff
InWindow(ts, cutoff) == ts > cutoff

\* entry.timestamps.filter((ts) => ts > cutoff)
Filter(timestamps, cutoff) == SelectSeq(timestamps, LAMBDA ts : InWindow(ts, cutoff))

\* Mutant of AtLimit: one request more than maxRequests is let through.
AtLimit_Above(count, max) == count > max

\* entry.timestamps.length >= maxRequests
AtLimit(count, max) == count >= max

\* Mutant of MapSet: one entry is shared by every key.
MapSet_Shared(map, key, value) == [k \in DOMAIN map \cup {key} |-> value]

\* Map.prototype.set
MapSet(map, key, value) ==
    [k \in DOMAIN map \cup {key} |-> IF k = key THEN value ELSE map[k]]

\* rateLimitMiddleware(maxRequests, windowMs): the middleware is made.
rateLimitMiddleware(maxRequests, windowMs) ==
    /\ ~limiter.created
    /\ limiter' = [created |-> TRUE, maxRequests |-> maxRequests, windowMs |-> windowMs]
    /\ UNCHANGED <<clock, rateLimitStore, passed, rejected, served, lastResponse, exceptRate>>

\* Time passes.
Tick ==
    /\ limiter.created
    /\ clock < MaxClock
    /\ clock' = clock + 1
    /\ UNCHANGED <<limiter, rateLimitStore, passed, rejected, served, lastResponse, exceptRate>>

\* (req, res, next) => ...: the middleware handles one request.
Handle(req) ==
    /\ limiter.created
    /\ served < MaxServed
    /\ served' = served + 1
    /\ IF isLocalRequest(req)
       THEN /\ lastResponse' = [seq |-> served + 1, req |-> req, key |-> <<>>, now |-> clock,
                                status |-> 0, nextCalled |-> TRUE, retryAfter |-> 0,
                                remaining |-> 0]
            /\ UNCHANGED <<rateLimitStore, passed, rejected>>
       ELSE LET key == getRateLimitKey(req)
                now == clock
                cutoff == now - limiter.windowMs
                entry == IF key \in DOMAIN rateLimitStore THEN rateLimitStore[key] ELSE <<>>
                timestamps == Filter(entry, cutoff)
            IN  IF AtLimit(Len(timestamps), limiter.maxRequests)
                THEN /\ rateLimitStore' = MapSet(rateLimitStore, key, timestamps)
                     /\ lastResponse' = [seq |-> served + 1, req |-> req, key |-> key,
                                         now |-> now, status |-> 429, nextCalled |-> FALSE,
                                         retryAfter |-> Ceil(limiter.windowMs, 1000),
                                         remaining |-> 0]
                     /\ passed' = passed
                     /\ rejected' = MapSet(rejected, key, now)
                ELSE /\ rateLimitStore' = MapSet(rateLimitStore, key, Append(timestamps, now))
                     /\ lastResponse' = [seq |-> served + 1, req |-> req, key |-> key,
                                         now |-> now, status |-> 0, nextCalled |-> TRUE,
                                         retryAfter |-> 0,
                                         remaining |-> limiter.maxRequests
                                                        - (Len(timestamps) + 1)]
                     /\ passed' = Append(passed, [key |-> key, ts |-> now])
                     /\ rejected' = rejected
    /\ UNCHANGED <<limiter, clock, exceptRate>>

WindowArgs == {1, 3}

NextRate ==
    \/ \E maxRequests \in 1..MaxLimit, windowMs \in WindowArgs :
            rateLimitMiddleware(maxRequests, windowMs)
    \/ Tick
    \/ \E req \in Requests : Handle(req)

SpecRate == Init /\ [][NextRate]_vars

\* ---------------------------------------------------- HybridSearchStrategy

\* What a strategy can answer: sets of matches, each an observation id with the
\* strategy's own score (in tenths).
Match(id, score) == [id |-> id, score |-> score]
MatchSets ==
    [lexical |-> {{}, {Match(7, 9)}, {Match(7, 9), Match(8, 5)}},
     vector |-> {{}, {Match(7, 4)}, {Match(7, 4), Match(9, 6)}, {Match(9, 9)},
                 {Match(8, 4), Match(9, 5)}}]

\* created_at of the stored observations.
CreatedAt(id) == 100 + id

WeightArgs == {[lexical |-> 1, vector |-> 1], [lexical |-> 1, vector |-> 2]}

\* Mutant of Contributes: the matches a timed-out strategy delivers late are merged too.
Contributes_Late(state) == state.status \in {"ok", "timedOut"}

\* The strategies whose matches enter the merge: those that answered in time.
Contributes(state) == state.status = "ok"

\* The degraded-mode flag: an enabled strategy failed or timed out.
Degraded(states) == \E s \in Strategies : states[s].status \in {"failed", "timedOut"}

Surviving(states) == {s \in Strategies : Contributes(states[s])}

\* Union of the candidates by observation id.
CandidateIds(states) == {m.id : m \in UNION {states[s].matches : s \in Surviving(states)}}

\* Weighted sum of the scores the contributing strategies gave to id.
RECURSIVE CombinedOver(_, _, _, _)
CombinedOver(states, weights, ss, id) ==
    IF ss = {} THEN 0
    ELSE LET s == CHOOSE x \in ss : TRUE
             own == {m \in states[s].matches : m.id = id}
             part == IF own = {} THEN 0 ELSE weights[s] * (CHOOSE m \in own : TRUE).score
         IN  part + CombinedOver(states, weights, ss \ {s}, id)

\* Mutant of Combined: the score of the strategy that answered first is kept
\* for an id, the later ones are dropped.
Combined_FirstWins(states, weights, id) ==
    LET having == {i \in 1..Len(arrival) : \E m \in states[arrival[i]].matches : m.id = id}
        first == arrival[CHOOSE i \in having : \A j \in having : i <= j]
    IN  CombinedOver(states, weights, {first}, id)

Combined(states, weights, id) == CombinedOver(states, weights, Surviving(states), id)

\* Combined score descending, then created_at descending (then id, to be total).
Before(a, b) ==
    \/ a.score > b.score
    \/ a.score = b.score /\ a.createdAt > b.createdAt
    \/ a.score = b.score /\ a.createdAt = b.createdAt /\ a.observationId < b.observationId

RECURSIVE SortRanked(_)
SortRanked(entries) ==
    IF entries = {} THEN <<>>
    ELSE LET first == CHOOSE a \in entries : \A b \in entries \ {a} : Before(a, b)
         IN  <<first>> \o SortRanked(entries \ {first})

Take(ranked, limit) == SubSeq(ranked, 1, Min(limit, Len(ranked)))

\* The merged, ranked and truncated result list.
Merge(states, weights, limit) ==
    Take(SortRanked({[observationId |-> id, score |-> Combined(states, weights, id),
                      createdAt |-> CreatedAt(id)] : id \in CandidateIds(states)}),
         limit)

\* The hybrid query starts: every enabled strategy is invoked concurrently.
Search(enabled, limit, weights) ==
    /\ searchPc = "idle"
    /\ searchPc' = "pending"
    /\ searchOptions' = [called |-> TRUE, limit |-> limit, weights |-> weights]
    /\ strategyState' = [s \in Strategies |->
                            [status |-> IF s \in enabled THEN "pending" ELSE "disabled",
                             matches |-> {}]]
    /\ UNCHANGED <<searchResult, arrival, exceptSearch>>

\* A strategy answers: in time, or after its timeout has fired.
StrategyReturns(s, matches) ==
    /\ searchPc \in {"pending", "done"}
    /\ \/ /\ searchPc = "pending"
          /\ strategyState[s].status = "pending"
          /\ strategyState' = [strategyState EXCEPT ![s] = [status |-> "ok", matches |-> matches]]
          /\ arrival' = Append(arrival, s)
       \/ /\ strategyState[s].status = "timedOut"
          /\ strategyState[s].matches = {}
          /\ matches # {}
          /\ strategyState' = [strategyState EXCEPT ![s].matches = matches]
          /\ arrival' = arrival
    /\ UNCHANGED <<searchPc, searchOptions, searchResult, exceptSearch>>

\* A strategy throws (the similarity index is unreachable, ...).
StrategyThrows(s) ==
    /\ searchPc = "pending"
    /\ strategyState[s].status = "pending"
    /\ strategyState' = [strategyState EXCEPT ![s].status = "failed"]
    /\ UNCHANGED <<searchPc, searchOptions, searchResult, arrival, exceptSearch>>

\* The per-strategy timeout fires before the strategy has answered.
StrategyTimesOut(s) ==
    /\ searchPc = "pending"
    /\ strategyState[s].status = "pending"
    /\ strategyState' = [strategyState EXCEPT ![s].status = "timedOut"]
    /\ UNCHANGED <<searchPc, searchOptions, searchResult, arrival, exceptSearch>>

\* Every enabled strategy has settled: the merge, and the result handed back.
\* With no strategy left the outcome is not laid down: an empty degraded
\* result or an error.
MergeResults ==
    /\ searchPc = "pending"
    /\ \A s \in Strategies : strategyState[s].status # "pending"
    /\ searchPc' = "done"
    /\ \/ searchResult' = [kind |-> "ok",
                           results |-> Merge(strategyState, searchOptions.weights,
                                             searchOptions.limit),
                           degraded |-> Degraded(strategyState)]
       \/ /\ Surviving(strategyState) = {}
          /\ searchResult' = [kind |-> "error", results |-> <<>>, degraded |-> TRUE]
    /\ UNCHANGED <<searchOptions, strategyState, arrival, exceptSearch>>

NextSearch ==
    \/ \E enabled \in SUBSET Strategies, limit \in 1..MaxResults, weights \in WeightArgs :
            Search(enabled, limit, weights)
    \/ \E s \in Strategies : \E matches \in MatchSets[s] : StrategyReturns(s, matches)
    \/ \E s \in Strategies : StrategyThrows(s)
    \/ \E s \in Strategies : StrategyTimesOut(s)
    \/ MergeResults

SpecSearch == Init /\ [][NextSearch]_vars

\* -------------------------------------------------------- MigrationRunner

\* The migration lists a build can carry: versions strictly increasing.
RECURSIVE Increasing(_)
Increasing(versions) ==
    \/ Len(versions) <= 1
    \/ versions[1] < versions[2] /\ Increasing(Tail(versions))

MigrationLists ==
    {list \in UNION {[1..n -> 1..MaxVersion] : n \in 1..MaxVersion} : Increasing(list)}

\* Mutant of IsApplied: the migrations-applied table is not consulted.
IsApplied_Never(version, records) == FALSE

\* The version is recorded in the migrations-applied table.
IsApplied(version, records) == \E i \in 1..Len(records) : records[i].version = version

\* The DDL of one migration, applied to the schema.
ApplyMigration(ddl, version) == Append(ddl, [migration |-> version])

\* Process startup: the runner begins at the head of the list. The list is
\* fixed by the first start.
StartMigrations(list) ==
    /\ migrationPc \in {"idle", "failed"}
    /\ migrationRuns < MaxRuns
    /\ IF migrationList = <<>> THEN migrationList' = list ELSE migrationList' = migrationList
    /\ migrationPc' = "running"
    /\ migrationIndex' = 1
    /\ UNCHANGED <<schema, schemaVersions, migrationRuns, migrationFailures, firstRun,
                   exceptMigration>>

\* The runner handles the next migration of the list: skipped when its version
\* is recorded, else applied and recorded in one transaction.
MigrateNext ==
    /\ migrationPc = "running"
    /\ migrationIndex <= Len(migrationList)
    /\ LET version == migrationList[migrationIndex] IN
       IF IsApplied(version, schemaVersions)
       THEN UNCHANGED <<schema, schemaVersions>>
       ELSE /\ schema' = ApplyMigration(schema, version)
            /\ schemaVersions' = Append(schemaVersions,
                                        [version |-> version,
                                         applied_at |-> Now(Len(schemaVersions) + 1)])
    /\ migrationIndex' = migrationIndex + 1
    /\ UNCHANGED <<migrationList, migrationPc, migrationRuns, migrationFailures, firstRun,
                   exceptMigration>>

\* A migration that is not yet recorded fails: fatal, nothing of it is kept.
MigrationFails ==
    /\ migrationPc = "running"
    /\ migrationIndex <= Len(migrationList)
    /\ ~IsApplied(migrationList[migrationIndex], schemaVersions)
    /\ migrationFailures < MaxFailedRuns
    /\ migrationFailures' = migrationFailures + 1
    /\ migrationPc' = "failed"
    /\ UNCHANGED <<migrationList, schema, schemaVersions, migrationIndex, migrationRuns,
                   firstRun, exceptMigration>>

\* The end of the list is reached: the run is complete.
MigrationsDone ==
    /\ migrationPc = "running"
    /\ migrationIndex > Len(migrationList)
    /\ migrationPc' = "idle"
    /\ migrationRuns' = migrationRuns + 1
    /\ firstRun' = IF firstRun.taken THEN firstRun
                   ELSE [taken |-> TRUE, schema |-> schema, schemaVersions |-> schemaVersions]
    /\ UNCHANGED <<migrationList, schema, schemaVersions, migrationIndex, migrationFailures,
                   exceptMigration>>

NextMigration ==
    \/ \E list \in MigrationLists : StartMigrations(list)
    \/ MigrateNext
    \/ MigrationFails
    \/ MigrationsDone

SpecMigration == Init /\ [][NextMigration]_vars

\* ------------------------------------------------------------------ claims

\* The yield history as (id, session) pairs, and one session's yielded ids in yield order.
YieldedRows ==
    [k \in 1..Len(yielded) |->
        [id |-> yielded[k].msg._persistentId, session_id |-> yielded[k].session_id]]

YieldedIds(sessionDbId) == IdsOf(YieldedRows, sessionDbId)

InStore(id) == \E i \in 1..Len(store) : store[i].id = id
IsYielded(id) == \E i \in 1..Len(yielded) : yielded[i].msg._persistentId = id
YieldsBy(p) == {i \in 1..Len(yielded) : yielded[i].proc = p}

\* C1: within each session, the ids yielded so far followed by the ids still in
\* the store are exactly the ids enqueued, in enqueue order, and each yielded
\* message carries the content and timestamp of the row it was enqueued as.
C1_FifoNoDuplication ==
    /\ \A s \in Sessions : YieldedIds(s) \o IdsOf(store, s) = IdsOf(enqueued, s)
    /\ \A i \in 1..Len(yielded) :
          LET m == yielded[i].msg
          IN  \E k \in 1..Len(enqueued) :
                 /\ enqueued[k].id = m._persistentId
                 /\ enqueued[k].session_id = yielded[i].session_id
                 /\ m.pending = [type |-> "test", content |-> <<"msg-", enqueued[k].id>>]
                 /\ m._originalTimestamp = enqueued[k].created_at_epoch

\* C1 witness: two rows of one session were yielded while a row enqueued between
\* or after them is still in the store.
C1_Witness ==
    /\ Len(yielded) >= 2
    /\ yielded[1].session_id = yielded[2].session_id
    /\ yielded[1].proc = yielded[2].proc
    /\ store # <<>>

\* C2: no row id is yielded twice, by the same iterator or by two of them.
C2_AtMostOnceClaim ==
    \A i, j \in 1..Len(yielded) :
        i # j => yielded[i].msg._persistentId # yielded[j].msg._persistentId

\* C2 witness: two iterators running for the same session have both yielded.
C2_Witness ==
    /\ session[1] = session[2]
    /\ pc[1] = "yielded" /\ pc[2] = "yielded"
    /\ YieldsBy(1) # {} /\ YieldsBy(2) # {}

\* C3 (as claimed): every row that has left the store has been yielded, whatever
\* was thrown inside the loop body.
C3_NoRowRemovedUnyielded ==
    \A k \in 1..Len(enqueued) : ~InStore(enqueued[k].id) => IsYielded(enqueued[k].id)

\* Every row enqueued so far for the session has been yielded.
AllYielded(sessionDbId) ==
    \A k \in 1..Len(enqueued) :
        enqueued[k].session_id = sessionDbId => IsYielded(enqueued[k].id)

\* The other processor.
Other(p) == CHOOSE q \in Procs : q # p

\* C4: whenever a processor is parked and a row of its session is in the store
\* (it was enqueued after the failed claim, with its one notification), the
\* processor comes to a state where every row enqueued for the session has been
\* yielded, unless it is cancelled first.
C4_NoLostWakeup ==
    \A p \in Procs :
        (pc[p] = "parked" /\ FindIndex(store, session[p]) # 0)
            ~> (AllYielded(session[p]) \/ aborted[p])

\* C4 witness: a processor is parked, a row of its session has been enqueued
\* since, and the notification of that enqueue is still to be emitted.
C4_Witness ==
    \E p \in Procs :
        /\ pc[p] = "parked" /\ ~aborted[p] /\ msgListeners[p] = 1
        /\ FindIndex(store, session[p]) # 0
        /\ toNotify = 1

\* C5: an abort that fires while the processor is parked resumes it with both
\* listeners removed; a resumed processor whose signal is aborted does nothing
\* but terminate (no yield, no removal from the store by it), and it does
\* terminate, whether or not a notification arrives.
C5_CancelWhileParked ==
    /\ [][\A p \in Procs :
            (pc[p] = "parked" /\ ~aborted[p] /\ aborted'[p])
                => (pc'[p] = "top" /\ msgListeners'[p] = 0 /\ abortListeners'[p] = 0)]_vars
    /\ [][\A p \in Procs :
            (pc[p] = "top" /\ aborted[p])
                => (/\ pc'[p] \in {"top", "done"}
                    /\ YieldsBy(p)' = YieldsBy(p)
                    /\ (pc'[p] = "done" => store' = store))]_vars
    /\ \A p \in Procs : (pc[p] \in {"parked", "top"} /\ aborted[p]) ~> (pc[p] = "done")

\* C5 witness: an iterator whose only claim found nothing has terminated without
\* a yield although no 'message' emit ever ran and nothing was thrown: it was
\* parked when its signal was aborted.
C5_Witness ==
    \E p \in Procs :
        /\ pc[p] = "done" /\ hasClaimed[p] /\ ~preAborted[p]
        /\ YieldsBy(p) = {} /\ errors = 0
        /\ enqueued # <<>> /\ toNotify = Len(enqueued)

\* C6: a throw of claimAndDelete under a live signal leads to the backoff of
\* BackoffMs, never to termination; the backoff ends at the loop condition only;
\* from there a live processor makes a claim attempt; a processor terminates
\* only with its signal aborted; and the backoff is followed by a claim attempt
\* unless the signal is aborted.
C6_TransientErrorNeverEnds ==
    /\ [][\A p \in Procs :
            /\ (errors' = errors + 1 /\ pc[p] = "top" /\ pc'[p] # "top")
                  => (pc'[p] = "backoff" /\ timer'[p] = BackoffMs)
            /\ (pc[p] = "backoff") => pc'[p] \in {"backoff", "top"}
            /\ (pc[p] = "top" /\ ~aborted[p] /\ pc'[p] # "top")
                  => pc'[p] \in {"yielded", "parked", "backoff"}
            /\ (pc[p] # "done" /\ pc'[p] = "done") => aborted[p]]_vars
    /\ \A p \in Procs :
          (pc[p] = "backoff") ~> (pc[p] \in {"yielded", "parked"} \/ aborted[p])

\* C6 witness: the only processor threw and has since claimed again.
C6_Witness ==
    /\ errors >= 1
    /\ pc[2] = "none"
    /\ pc[1] \in {"yielded", "parked"}
    /\ ~aborted[1]

\* C7: a step that aborts one processor leaves a processor of another session
\* where it is, with its listeners, and that processor still yields every row
\* enqueued for its session unless it is cancelled itself.
C7_CancellationIsolation ==
    /\ [][\A p, q \in Procs :
            (p # q /\ pc[p] # "none" /\ pc[q] # "none" /\ session[p] # session[q]
               /\ ~aborted[p] /\ aborted'[p])
                => (/\ pc'[q] = pc[q]
                    /\ aborted'[q] = aborted[q]
                    /\ msgListeners'[q] = msgListeners[q]
                    /\ abortListeners'[q] = abortListeners[q])]_vars
    /\ \A q \in Procs :
          (aborted[Other(q)] /\ pc[q] # "none" /\ session[Other(q)] # session[q]
             /\ FindIndex(store, session[q]) # 0)
              ~> (AllYielded(session[q]) \/ aborted[q])

\* C7 witness: one processor was aborted and has terminated; the other, of
\* another session, is live and has just yielded the row enqueued last.
C7_Witness ==
    \E p, q \in Procs :
        /\ p # q /\ session[p] # session[q]
        /\ aborted[p] /\ ~preAborted[p] /\ pc[p] = "done"
        /\ ~aborted[q] /\ pc[q] = "yielded"
        /\ yielded[Len(yielded)].proc = q
        /\ yielded[Len(yielded)].msg._persistentId = Len(enqueued)

\* C8: when an iterator has terminated, the rows of its session that were not
\* yielded are in the store in enqueue order; terminating removes nothing; from
\* then on a row of that session leaves the store only as the oldest one, yielded
\* by another processor of the session; and a processor created afterwards
\* yields each of them unless it is cancelled.
C8_StoppingDoesNotDrain ==
    /\ [](\A p \in Procs :
            pc[p] = "done" =>
                YieldedIds(session[p]) \o IdsOf(store, session[p])
                    = IdsOf(enqueued, session[p]))
    /\ [][\A p \in Procs : (pc[p] # "done" /\ pc'[p] = "done") => store' = store]_vars
    /\ [][\A p \in Procs :
            (pc[p] = "done" /\ IdsOf(store, session[p])' # IdsOf(store, session[p])
               /\ enqueued' = enqueued)
                => (/\ IdsOf(store, session[p])' = Tail(IdsOf(store, session[p]))
                    /\ Len(yielded') = Len(yielded) + 1
                    /\ yielded'[Len(yielded')].proc # p
                    /\ yielded'[Len(yielded')].session_id = session[p]
                    /\ yielded'[Len(yielded')].msg._persistentId
                          = Head(IdsOf(store, session[p])))]_vars
    /\ \A q \in Procs :
          (successor[q] /\ FindIndex(store, session[q]) # 0)
              ~> (AllYielded(session[q]) \/ aborted[q])

\* C8 witness: a processor yielded and terminated leaving rows behind, and a
\* processor created afterwards for the same session has yielded one.
C8_Witness ==
    \E p, q \in Procs :
        /\ p # q /\ session[p] = session[q]
        /\ pc[p] = "done" /\ YieldsBy(p) # {}
        /\ successor[q] /\ YieldsBy(q) # {}

\* C9: an iterator created with an aborted signal never calls claimAndDelete,
\* never yields, never parks, and its terminating step leaves store and yield
\* history as they were.
C9_PreAbortedSignal ==
    /\ [](\A p \in Procs :
            preAborted[p] =>
                (/\ ~hasClaimed[p]
                 /\ YieldsBy(p) = {}
                 /\ pc[p] \in {"top", "done"}
                 /\ msgListeners[p] = 0 /\ abortListeners[p] = 0))
    /\ [][\A p \in Procs :
            (preAborted[p] /\ pc[p] = "top" /\ pc'[p] # "top")
                => (pc'[p] = "done" /\ store' = store /\ yielded' = yielded)]_vars

\* C9 witness: a pre-aborted iterator has terminated while its session has rows pending.
C9_Witness ==
    \E p \in Procs :
        preAborted[p] /\ pc[p] = "done" /\ FindIndex(store, session[p]) # 0

\* C10: in the event stream every session_completed event is directly followed
\* by a processing_status event, the one recomputed by the worker service.
C10_BroadcastConsistency ==
    \A i \in 1..Len(sse) :
        sse[i].type = "session_completed"
            => (/\ i < Len(sse)
                /\ sse[i + 1].type = "processing_status"
                /\ sse[i + 1].recomputed)

\* C10 witness: a session_completed event was broadcast between other events.
C10_Witness ==
    \E i \in 2..Len(sse) :
        /\ sse[i].type = "session_completed"
        /\ sse[i - 1].type = "processing_status"
        /\ Len(sse) >= i + 2

\* The lifecycle transitions SessionEventBroadcaster announces.
Transitions == {"new_prompt", "session_started", "observation_queued", "session_completed"}

\* C11: the event directly after every lifecycle transition event is the
\* processing status recomputed from the queue by the worker service, never a
\* status whose value was fixed without the recomputation.
C11_TransitionThenRecomputedStatus ==
    \A i \in 1..Len(sse) :
        sse[i].type \in Transitions
            => (/\ i < Len(sse)
                /\ sse[i + 1].type = "processing_status"
                /\ sse[i + 1].recomputed)

\* C12: a fileEditHandler.execute call whose input lacks filePath or cwd ends
\* by throwing, whatever the worker, memory-config and exclusion state; it
\* never returns a success result.
C12_MissingFieldAlwaysThrows ==
    (/\ hookResult.kind # "none"
     /\ (~hookInput.filePath.defined \/ ~hookInput.cwd.defined))
        => hookResult.kind = "throw"

\* C13: on a NoopVectorSync, whatever the calls and their order (after close
\* too), no call throws, every query returns empty ids, distances and
\* metadatas, and every isHealthy returns true.
C13_NoopEmptyAndHealthy ==
    \A i \in 1..Len(noopLog) :
        /\ noopLog[i].result.kind # "throw"
        /\ noopLog[i].op = "query"
            => (/\ noopLog[i].result.kind = "result"
                /\ noopLog[i].result.ids = <<>>
                /\ noopLog[i].result.distances = <<>>
                /\ noopLog[i].result.metadatas = <<>>)
        /\ noopLog[i].op = "isHealthy"
            => (noopLog[i].result.kind = "boolean" /\ noopLog[i].result.value)

\* C13 witness: after a close, a query and an isHealthy have been answered.
C13_Witness ==
    /\ Len(noopLog) = 3
    /\ noopLog[1].op = "close"
    /\ noopLog[2].op = "query"
    /\ noopLog[3].op = "isHealthy"

\* Positions of the fetch attempts and of the sleeps in the trace of the call.
FetchAttempts == {i \in 1..Len(fetchTrace) : fetchTrace[i].type = "fetch"}
Sleeps == {i \in 1..Len(fetchTrace) : fetchTrace[i].type = "sleep"}
FetchDone == fetchPc \in {"returned", "threw"}

\* C14: a fetchWithRetry call makes at most maxRetries + 1 fetch attempts and
\* ends, whatever the failures; every sleep comes directly after a failed
\* attempt and is followed by the next attempt, never by the end of the call.
C14_BoundedAttempts ==
    /\ [](fetchPc # "idle" =>
            /\ Cardinality(FetchAttempts) <= (IF maxRetries < 0 THEN 0 ELSE maxRetries + 1)
            /\ \A i \in Sleeps :
                /\ i > 1
                /\ fetchTrace[i - 1].type = "fetch"
                /\ i < Len(fetchTrace) => fetchTrace[i + 1].type = "fetch"
                /\ i = Len(fetchTrace) => fetchPc \in {"sleeping", "fetching"})
    /\ (fetchPc # "idle") ~> FetchDone

\* C14 witness: with the default options the call has ended after four failed
\* attempts and three sleeps.
C14_Witness ==
    /\ fetchPc = "threw"
    /\ ~fetchOptions.maxRetries.defined
    /\ Cardinality(FetchAttempts) = 4
    /\ Cardinality(Sleeps) = 3

\* C15: an attempt failing with an error that isRetryableError rejects is the
\* last step of the call, which throws that same error: no sleep and no
\* further attempt follow.
C15_NonRetryableThrownAtOnce ==
    \A i \in FetchAttempts :
        (~fetchTrace[i].ok /\ ~isRetryableError(fetchTrace[i].error))
            => (/\ i = Len(fetchTrace)
                /\ fetchPc = "threw"
                /\ fetchOutcome.kind = "throw"
                /\ fetchOutcome.error = fetchTrace[i].error)

\* C15 witness: after one retried failure, a second attempt failed with a
\* non-retryable error while retries were left.
C15_Witness ==
    /\ fetchPc = "threw"
    /\ Len(fetchTrace) = 3
    /\ ~isRetryableError(fetchTrace[3].error)
    /\ attempt < maxRetries

\* C16: the call returns the response of the first attempt that succeeds and
\* makes no attempt after it; when all its maxRetries + 1 attempts failed with
\* retryable errors it throws the error of the last of them.
C16_FirstSuccessOrLastError ==
    /\ \A i \in FetchAttempts :
        fetchTrace[i].ok
            => (/\ i = Len(fetchTrace)
                /\ fetchOutcome = [kind |-> "return", response |-> fetchTrace[i].attempt])
    /\ (fetchPc # "idle" /\ fetchOutcome.kind = "return")
            => (fetchTrace # <<>> /\ fetchTrace[Len(fetchTrace)].ok)
    /\ (/\ fetchPc # "idle"
        /\ fetchOutcome.kind = "throw"
        /\ FetchAttempts # {}
        /\ Cardinality(FetchAttempts) = maxRetries + 1
        /\ \A i \in FetchAttempts :
            ~fetchTrace[i].ok /\ isRetryableError(fetchTrace[i].error))
            => (/\ fetchTrace[Len(fetchTrace)].type = "fetch"
                /\ fetchOutcome.error = fetchTrace[Len(fetchTrace)].error)

\* C16 witness: all four attempts of a call with the default options failed
\* with retryable errors, not all the same, and the call has thrown.
C16_Witness ==
    /\ fetchPc = "threw"
    /\ ~fetchOptions.maxRetries.defined
    /\ Cardinality(FetchAttempts) = 4
    /\ isRetryableError(fetchTrace[Len(fetchTrace)].error)
    /\ fetchTrace[1].error.code # fetchTrace[Len(fetchTrace)].error.code

\* C17: no delay slept between two attempts exceeds maxDelayMs.
C17_DelayAtMostMax ==
    \A i \in Sleeps : fetchTrace[i].delay <= maxDelayMs

\* Remote requests of a key handed to next() with a timestamp in (from, to].
PassedIn(key, from, to) ==
    Cardinality({i \in 1..Len(passed) :
                    passed[i].key = key /\ passed[i].ts > from /\ passed[i].ts <= to})

PassedKeys == {passed[i].key : i \in 1..Len(passed)}

\* C18: for every key and every instant t, at most maxRequests requests of the
\* key were handed to next() with timestamps in (t - windowMs, t]; a request
\* that finds maxRequests of them in its window is answered 429 without next().
C18_SlidingWindowLimit ==
    /\ [](limiter.created =>
            \A key \in PassedKeys, t \in 0..MaxClock :
                PassedIn(key, t - limiter.windowMs, t) <= limiter.maxRequests)
    /\ [][(/\ served' = served + 1
           /\ lastResponse'.key # <<>>
           /\ PassedIn(lastResponse'.key, clock - limiter.windowMs, clock)
                >= limiter.maxRequests)
            => (/\ lastResponse'.status = 429
                /\ ~lastResponse'.nextCalled
                /\ passed' = passed)]_vars

\* C18 witness: a key has used its whole quota of two inside the window and its
\* next request was answered 429.
C18_Witness ==
    /\ limiter.created
    /\ limiter.maxRequests = 2
    /\ lastResponse.seq > 0
    /\ lastResponse.status = 429
    /\ PassedIn(lastResponse.key, clock - limiter.windowMs, clock) = 2

LocalAddresses == {"127.0.0.1", "::1", "::ffff:127.0.0.1"}

\* C19: a request from a localhost address is handed to next(), is not
\* answered 429 and leaves the rate-limit store as it was.
C19_LocalRequestsBypass ==
    [][(served' = served + 1 /\ lastResponse'.req.ip \in LocalAddresses)
        => (/\ lastResponse'.nextCalled
            /\ lastResponse'.status # 429
            /\ rateLimitStore' = rateLimitStore
            /\ passed' = passed)]_vars

\* C19 witness: a local request carrying a token whose key has no quota left
\* was handed to next().
C19_Witness ==
    /\ lastResponse.seq > 0
    /\ lastResponse.req.ip \in LocalAddresses
    /\ lastResponse.nextCalled
    /\ getRateLimitKey(lastResponse.req) \in DOMAIN rateLimitStore
    /\ Len(Filter(rateLimitStore[getRateLimitKey(lastResponse.req)],
                  clock - limiter.windowMs)) >= limiter.maxRequests

\* Observation ids matched by the strategies that answered in time, and by
\* those that threw or timed out (a timed-out strategy may answer late).
AnsweredIds == {m.id : m \in UNION {strategyState[s].matches :
                                        s \in {x \in Strategies : strategyState[x].status = "ok"}}}
ResultIds == {searchResult.results[i].observationId : i \in 1..Len(searchResult.results)}
SomeStrategyLost == \E s \in Strategies : strategyState[s].status \in {"failed", "timedOut"}
SomeStrategyAnswered == \E s \in Strategies : strategyState[s].status = "ok"

\* C20: when an enabled strategy throws or times out and another answers, the
\* hybrid query succeeds with the degraded flag set, its result holds the
\* answering strategies' matches (up to the limit) and nothing that only the
\* lost strategy produced; when every enabled strategy answers the flag is
\* not set.
C20_PartialFailureTolerance ==
    searchPc = "done" =>
        /\ (SomeStrategyLost /\ SomeStrategyAnswered)
            => (/\ searchResult.kind = "ok"
                /\ searchResult.degraded
                /\ ResultIds \subseteq AnsweredIds
                /\ Len(searchResult.results)
                    = Min(searchOptions.limit, Cardinality(AnsweredIds))
                /\ Cardinality(ResultIds) = Len(searchResult.results))
        /\ (~SomeStrategyLost /\ SomeStrategyAnswered)
            => (searchResult.kind = "ok" /\ ~searchResult.degraded)

\* C20 witness: the vector strategy timed out and answered late with
\* observation 9, the lexical strategy answered 7 and 8, and the degraded
\* result holds exactly 7 and 8.
C20_Witness ==
    /\ searchPc = "done"
    /\ strategyState["vector"].status = "timedOut"
    /\ strategyState["vector"].matches = {Match(9, 9)}
    /\ strategyState["lexical"].status = "ok"
    /\ searchResult.kind = "ok"
    /\ searchResult.degraded
    /\ ResultIds = {7, 8}

\* The score strategy s gave to id, weighted; 0 when s did not answer in time
\* or did not match id.
WeightedScore(s, id) ==
    LET own == {m \in strategyState[s].matches : m.id = id}
    IN  IF strategyState[s].status = "ok" /\ own # {}
        THEN searchOptions.weights[s] * (CHOOSE m \in own : TRUE).score
        ELSE 0

\* a ranks strictly before b: combined score descending, then created_at descending.
RanksBefore(a, b) ==
    \/ a.score > b.score
    \/ a.score = b.score /\ a.createdAt > b.createdAt

\* C21: in the merged output no observation id occurs twice, each entry's score
\* is the weighted sum of the scores of the strategies that matched it, the
\* entries are in combined-score order with created_at as tie-break, there are
\* at most limit of them and they are the best ranked candidates; the output is
\* thereby fixed by the strategies' answers, whatever their completion order.
C21_MergeDedupRanked ==
    (searchPc = "done" /\ searchResult.kind = "ok") =>
        LET results == searchResult.results IN
        /\ Cardinality(ResultIds) = Len(results)
        /\ Len(results) <= searchOptions.limit
        /\ \A i \in 1..Len(results) :
            /\ results[i].score = WeightedScore("lexical", results[i].observationId)
                                    + WeightedScore("vector", results[i].observationId)
            /\ results[i].createdAt = CreatedAt(results[i].observationId)
        /\ \A i, j \in 1..Len(results) : i < j => RanksBefore(results[i], results[j])
        /\ \A id \in AnsweredIds \ ResultIds :
            /\ Len(results) = searchOptions.limit
            /\ RanksBefore(results[Len(results)],
                           [score |-> WeightedScore("lexical", id) + WeightedScore("vector", id),
                            createdAt |-> CreatedAt(id)])

\* C21 witness: the vector strategy answered before the lexical one, both
\* matched observation 8, which ties with observation 7 on the combined score
\* and is ranked first by its later created_at; observation 9 fell to the limit.
C21_Witness ==
    /\ searchPc = "done"
    /\ searchResult.kind = "ok"
    /\ arrival = <<"vector", "lexical">>
    /\ searchOptions.limit = 2
    /\ Len(searchResult.results) = 2
    /\ searchResult.results[1].observationId = 8
    /\ searchResult.results[2].observationId = 7
    /\ searchResult.results[1].score = searchResult.results[2].score
    /\ 9 \in AnsweredIds

\* C22: after the migration list has run completely once, further complete
\* runs leave the schema and the applied-version records as the first run left
\* them; no version is recorded twice, the recorded versions increase strictly,
\* and the step for a version that is already recorded changes neither.
C22_MigrationIdempotence ==
    /\ []((firstRun.taken /\ migrationPc = "idle")
            => (schema = firstRun.schema /\ schemaVersions = firstRun.schemaVersions))
    /\ [](\A i, j \in 1..Len(schemaVersions) :
            i < j => schemaVersions[i].version < schemaVersions[j].version)
    /\ [](Len(schema) = Len(schemaVersions))
    /\ [][(/\ migrationPc = "running"
           /\ migrationIndex' = migrationIndex + 1
           /\ \E i \in 1..Len(schemaVersions) :
                schemaVersions[i].version = migrationList[migrationIndex])
            => (schema' = schema /\ schemaVersions' = schemaVersions)]_vars

\* C22 witness: a list of three migrations has run completely twice from the
\* empty store.
C22_Witness ==
    /\ migrationRuns = 2
    /\ migrationPc = "idle"
    /\ Len(migrationList) = 3
    /\ Len(schemaVersions) = 3
    /\ migrationFailures = 0

\* C23: a yielded row is never in the store; a consumer that dies while it
\* holds a yielded message puts nothing back; and no step, of the same or of a
\* later processor, yields a row that was yielded before.
C23_AtMostOnceAcrossCrash ==
    /\ [](\A i \in 1..Len(yielded) : ~InStore(yielded[i].msg._persistentId))
    /\ [][\A p \in Procs :
            (pc[p] = "yielded" /\ pc'[p] = "done")
                => (store' = store /\ yielded' = yielded)]_vars
    /\ [][Len(yielded') > Len(yielded)
            => \A i \in 1..Len(yielded) :
                  yielded'[Len(yielded')].msg._persistentId
                      # yielded[i].msg._persistentId]_vars

\* C23 witness: a consumer died holding the message its processor had yielded
\* (the processor ended with its signal live), and a processor created
\* afterwards for the same session has yielded a later row.
C23_Witness ==
    \E p, q \in Procs :
        /\ p # q /\ session[p] = session[q]
        /\ pc[p] = "done" /\ ~aborted[p] /\ YieldsBy(p) # {}
        /\ successor[q] /\ YieldsBy(q) # {}
        /\ \A i \in YieldsBy(p), j \in YieldsBy(q) : i < j

\* C24: a parked processor has its 'message' listener registered, and for every
\* row of its session in the store an emit of 'message' is still to come; the
\* step that parks a processor is the one whose claim found no row of the
\* session, and it registers the listeners without an enqueue or an emit between.
C24_LostWakeupWindowClosed ==
    /\ [](\A p \in Procs :
            pc[p] = "parked" =>
                /\ msgListeners[p] = 1
                /\ Len(IdsOf(store, session[p])) <= toNotify)
    /\ [][\A p \in Procs :
            (pc[p] # "parked" /\ pc'[p] = "parked")
                => (/\ IdsOf(store, session[p]) = <<>>
                    /\ msgListeners'[p] = 1
                    /\ store' = store
                    /\ toNotify' = toNotify)]_vars

\* C24 witness: two rows of a parked processor's session were enqueued after it
\* parked, and both emits are still to come.
C24_Witness ==
    \E p \in Procs :
        /\ pc[p] = "parked" /\ ~aborted[p]
        /\ Len(IdsOf(store, session[p])) = 2
        /\ toNotify = 2
        /\ yielded = <<>>

\* C25: a live processor that is not parked goes on, with no 'message' emit
\* needed, until it parks or is cancelled; and the step that parks it finds no
\* row of its session in the store, every row enqueued for the session so far
\* having been yielded.
C25_BacklogDrainedWithoutNotification ==
    /\ \A p \in Procs :
          (pc[p] \in {"top", "yielded", "backoff"} /\ ~aborted[p])
              ~> (pc[p] = "parked" \/ aborted[p])
    /\ [][\A p \in Procs :
            (pc[p] # "parked" /\ pc'[p] = "parked")
                => (FindIndex(store, session[p]) = 0 /\ AllYielded(session[p]))]_vars

\* C25 witness: no emit has run, and the one processor has yielded the two rows
\* of its session one after the other and is parked.
C25_Witness ==
    /\ toNotify = Len(enqueued) /\ Len(enqueued) = 2
    /\ pc[1] = "parked" /\ pc[2] = "none"
    /\ errors = 0
    /\ Len(yielded) = 2
    /\ \A i \in 1..2 : yielded[i].proc = 1 /\ yielded[i].msg._persistentId = i

\* Rows of other sessions have been enqueued.
ForeignRows(sessionDbId) ==
    \E k \in 1..Len(enqueued) : enqueued[k].session_id # sessionDbId

\* C26: every yielded row was enqueued for the session of the processor that
\* yielded it; a row leaves the store only in a step of a processor of the row's
\* session; a woken live processor that finds no row of its session (rows of
\* other sessions or none) yields nothing, removes nothing and parks with its
\* listener registered, or backs off if the claim threw; and a processor parked
\* while other sessions are enqueued into still yields the rows enqueued for
\* its own session, unless it is cancelled.
C26_NoCrossSessionInterference ==
    /\ [](\A i \in 1..Len(yielded) :
            \E k \in 1..Len(enqueued) :
                /\ enqueued[k].id = yielded[i].msg._persistentId
                /\ enqueued[k].session_id = session[yielded[i].proc])
    /\ [][\A s \in Sessions :
            (IdsOf(store, s)' # IdsOf(store, s) /\ enqueued' = enqueued)
                => \E p \in Procs :
                      /\ session[p] = s
                      /\ pc[p] = "top" /\ pc'[p] # "top"
                      /\ \A t \in Sessions \ {s} : IdsOf(store, t)' = IdsOf(store, t)]_vars
    /\ [][\A p \in Procs :
            (pc[p] = "top" /\ ~aborted[p] /\ IdsOf(store, session[p]) = <<>>
               /\ pc'[p] # "top")
                => (/\ store' = store /\ yielded' = yielded
                    /\ pc'[p] \in {"parked", "backoff"}
                    /\ (pc'[p] = "parked" => msgListeners'[p] = 1))]_vars
    /\ \A p \in Procs :
          (pc[p] = "parked" /\ ForeignRows(session[p]) /\ IdsOf(store, session[p]) # <<>>)
              ~> (AllYielded(session[p]) \/ aborted[p])

\* C26 witness: the only processor parked, the emit for a row of another
\* session woke it, and it stands at the loop condition with only that row in
\* the store.
C26_Witness ==
    \E p \in Procs :
        /\ pc[p] = "top" /\ hasClaimed[p] /\ ~aborted[p]
        /\ pc[Other(p)] = "none"
        /\ errors = 0 /\ yielded = <<>>
        /\ Len(store) = 1 /\ store[1].session_id # session[p]
        /\ Len(enqueued) = 1 /\ toNotify = 0

\* C27: a processor whose signal is aborted is never parked; its steps add
\* nothing to the yield history, throw nothing and register no listener; it
\* moves only from the backoff or from a yield to the loop condition and from
\* there to its end, which is no claim; and a row leaves the store only in the
\* step of a processor whose signal is live.
C27_NoClaimAfterCancellation ==
    /\ [](\A p \in Procs : aborted[p] => pc[p] # "parked")
    /\ [][\A p \in Procs :
            aborted[p] =>
                /\ YieldsBy(p)' = YieldsBy(p)
                /\ msgListeners'[p] = 0 /\ abortListeners'[p] = 0
                /\ (pc[p] = "top" => pc'[p] \in {"top", "done"})
                /\ (pc[p] = "yielded" => pc'[p] \in {"yielded", "top"})
                /\ (pc[p] = "backoff" => pc'[p] \in {"backoff", "top"})
                /\ (pc[p] = "done" => pc'[p] = "done")]_vars
    /\ [][(Len(store') < Len(store) \/ errors' # errors)
            => \E p \in Procs : ~aborted[p] /\ pc'[p] # pc[p]]_vars

\* C27 witness: one processor's signal was aborted while its consumer held a
\* yielded message, the other's while it slept in the error backoff, and rows
\* of both sessions are in the store.
C27_Witness ==
    \E p, q \in Procs :
        /\ p # q /\ session[p] # session[q]
        /\ pc[p] = "yielded" /\ aborted[p]
        /\ pc[q] = "backoff" /\ aborted[q]
        /\ IdsOf(store, session[p]) # <<>>
        /\ IdsOf(store, session[q]) # <<>>

\* The listeners a processor has registered in the position it is in.
ListenersAt(position) == IF position = "parked" THEN 1 ELSE 0

\* C28: a processor has exactly one 'message' listener and one abort listener
\* while it is parked and none in any other position, its end included; the
\* step that ends a park, by an emit or by an abort, leaves it with none.
C28_ListenerHygiene ==
    /\ [](\A p \in Procs :
            /\ msgListeners[p] = ListenersAt(pc[p])
            /\ abortListeners[p] = ListenersAt(pc[p]))
    /\ [][\A p \in Procs :
            (pc[p] = "parked" /\ pc'[p] # "parked")
                => (/\ pc'[p] = "top"
                    /\ msgListeners'[p] = 0 /\ abortListeners'[p] = 0
                    /\ (toNotify' = toNotify - 1 \/ (~aborted[p] /\ aborted'[p])))]_vars

\* C28 witness: one processor parked, was resumed and has terminated without a
\* yield or an error; the other has yielded and is parked.
C28_Witness ==
    \E p, q \in Procs :
        /\ p # q
        /\ pc[p] = "done" /\ hasClaimed[p] /\ YieldsBy(p) = {} /\ errors = 0
        /\ pc[q] = "parked" /\ YieldsBy(q) # {}
        /\ toNotify = 0

\* The checks of one fileEditHandler.execute call, read from its input and from
\* what its collaborators answered.
HookCalled == hookResult.kind # "none"
WorkerNotReady == ~hookEnv.workerReady
MemoryDisabled == hookEnv.memoryDisabled
ProjectExcluded ==
    (IF ~hookInput.cwd.defined \/ hookInput.cwd.segs = <<>> THEN "unknown-project"
     ELSE hookInput.cwd.segs[Len(hookInput.cwd.segs)]) \in hookEnv.excluded
HasFilePath == hookInput.filePath.defined /\ hookInput.filePath # Path(FALSE, <<>>)
HasCwd == hookInput.cwd.defined /\ hookInput.cwd # Path(FALSE, <<>>)
SkipResult ==
    /\ hookResult.kind = "return"
    /\ hookResult.continue /\ hookResult.suppressOutput
    /\ hookResult.posts = 0

\* C29 (as claimed): a call made while the worker is not ready, or memory is
\* disabled for the cwd, or the project is excluded, returns the skip result
\* with no POST; a call issues at most one POST, and only when the three checks
\* pass and filePath and cwd are present.
C29_SkipSendsNothingOnePost ==
    HookCalled =>
        /\ (WorkerNotReady \/ MemoryDisabled \/ ProjectExcluded) => SkipResult
        /\ hookResult.posts <= 1
        /\ hookResult.posts >= 1
            => (/\ ~WorkerNotReady /\ ~MemoryDisabled /\ ~ProjectExcluded
                /\ HasFilePath /\ HasCwd)

\* C29 (amended): a call made while the worker is not ready returns the skip
\* result; so does a call with a filePath whose memory is disabled or whose
\* project is excluded; a call that skips or that lacks a field issues no POST;
\* a POST is issued only when the three checks pass and filePath and cwd are
\* present, at most DefaultMaxRetries + 1 times, each one but the last having
\* been rejected with a retryable network error.
C29_SkipSendsNothing ==
    HookCalled =>
        /\ (WorkerNotReady \/ (HasFilePath /\ (MemoryDisabled \/ ProjectExcluded)))
              => SkipResult
        /\ (WorkerNotReady \/ MemoryDisabled \/ ProjectExcluded
              \/ ~HasFilePath \/ ~HasCwd) => hookResult.posts = 0
        /\ hookResult.posts <= DefaultMaxRetries + 1
        /\ \A i \in 1..(hookResult.posts - 1) :
              /\ hookEnv.network[i].kind = "reject"
              /\ hookEnv.network[i].value.code \in RETRYABLE_ERRORS

\* C29 witness: the worker is ready, filePath and cwd are present, the network
\* would answer the POST, and the call skipped because the project is excluded.
C29_Witness ==
    /\ HookCalled /\ ~WorkerNotReady /\ ~MemoryDisabled /\ ProjectExcluded
    /\ HasFilePath /\ HasCwd
    /\ hookEnv.network = <<Response(TRUE)>>
    /\ SkipResult

\* The call issued POSTs and the last of them was rejected or answered with a
\* status that is not OK.
StoreFailed ==
    /\ HookCalled
    /\ hookResult.posts >= 1
    /\ LET last == hookEnv.network[hookResult.posts]
       IN  last.kind = "reject" \/ ~last.ok

\* C30: a call whose POST was answered with a non-OK status, or whose
\* fetchWithRetry threw, ends by throwing; a call that returns after a POST
\* got an OK response to the last one.
C30_NoSuccessForFailedStore ==
    /\ StoreFailed => (hookResult.kind = "throw" /\ ~hookResult.continue)
    /\ (HookCalled /\ hookResult.kind = "return" /\ hookResult.posts >= 1)
          => (/\ hookEnv.network[hookResult.posts] = Response(TRUE)
              /\ hookResult.sent)

\* C30 witness: three POSTs were rejected with a retryable error, the fourth
\* was answered with a non-OK status, and the call threw.
C30_Witness ==
    /\ StoreFailed
    /\ hookResult.posts = DefaultMaxRetries + 1
    /\ hookEnv.network[hookResult.posts] = Response(FALSE)
    /\ hookResult.kind = "throw"

\* The timestamps stored for a key, none for a key without an entry.
StoredFor(map, key) == IF key \in DOMAIN map THEN map[key] ELSE <<>>

\* C31: a request answered 429 is not handed to next() and leaves under its key
\* only timestamps that were there before, none added; and a request of a key
\* whose latest 429 lies windowMs or more back, with no request of the key
\* handed to next() since, is handed to next() and not answered 429.
C31_RejectedNotCountedRetryAfterSuffices ==
    /\ [][(served' = served + 1 /\ lastResponse'.status = 429)
            => LET key == lastResponse'.key
                   before == StoredFor(rateLimitStore, key)
                   after == StoredFor(rateLimitStore', key)
               IN  /\ passed' = passed
                   /\ ~lastResponse'.nextCalled
                   /\ Len(after) <= Len(before)
                   /\ \A i \in 1..Len(after) : \E j \in 1..Len(before) : after[i] = before[j]
                   /\ lastResponse'.retryAfter * 1000 >= limiter.windowMs]_vars
    /\ [][(/\ served' = served + 1
           /\ lastResponse'.key \in DOMAIN rejected
           /\ clock >= rejected[lastResponse'.key] + limiter.windowMs
           /\ PassedIn(lastResponse'.key, rejected[lastResponse'.key], clock) = 0)
            => (/\ lastResponse'.nextCalled
                /\ lastResponse'.status # 429
                /\ StoredFor(rateLimitStore', lastResponse'.key) = <<clock>>)]_vars

\* C31 witness: a key was answered 429, nothing of it was handled for windowMs
\* (three clock units), and its next request was handed to next().
C31_Witness ==
    /\ limiter.created /\ limiter.windowMs = 3
    /\ lastResponse.seq > 0
    /\ lastResponse.nextCalled
    /\ lastResponse.key \in DOMAIN rejected
    /\ lastResponse.now = rejected[lastResponse.key] + limiter.windowMs
    /\ PassedIn(lastResponse.key, rejected[lastResponse.key], clock) = 1
    /\ rateLimitStore[lastResponse.key] = <<clock>>

\* C32: handling a request leaves the timestamps of every key but its own as
\* they were and creates no entry but its own; and a request is answered 429
\* only when maxRequests requests of its own key were handed to next() inside
\* its window, whatever the other keys have used.
C32_KeysIndependent ==
    /\ [][served' = served + 1
            => \A key \in (DOMAIN rateLimitStore \cup DOMAIN rateLimitStore')
                              \ {lastResponse'.key} :
                  /\ key \in DOMAIN rateLimitStore
                  /\ key \in DOMAIN rateLimitStore'
                  /\ rateLimitStore'[key] = rateLimitStore[key]]_vars
    /\ [][(served' = served + 1 /\ lastResponse'.status = 429)
            => PassedIn(lastResponse'.key, clock - limiter.windowMs, clock)
                  >= limiter.maxRequests]_vars

\* C32 witness: one key has used its quota and was answered 429, and a request
\* of another key, its first, was then handed to next() at the same instant.
C32_Witness ==
    /\ lastResponse.seq > 0
    /\ lastResponse.nextCalled /\ lastResponse.key # <<>>
    /\ rateLimitStore[lastResponse.key] = <<clock>>
    /\ PassedIn(lastResponse.key, -1, clock) = 1
    /\ \E key \in DOMAIN rejected :
          /\ key # lastResponse.key
          /\ rejected[key] = clock
          /\ Len(rateLimitStore[key]) >= limiter.maxRequests

====
